---- MODULE Spec2Model ----
(***************************************************************************)
(* Model of the TCP socket utility layer of src/src/tcp-sock.c.            *)
(*                                                                         *)
(* The library functions are wrappers around BSD socket system calls, so   *)
(* the state is the kernel's view of the process: the descriptor table,    *)
(* the sockets behind it (state, local port, options, peer, receive queue, *)
(* bytes still in flight), the activation record of createServerSocket,    *)
(* the caller's client array scanned by checkClientConnections and the     *)
(* result of the last library call.  System calls are the K* operators;    *)
(* the library functions are the actions built from them.                  *)
(***************************************************************************)
EXTENDS Integers, Sequences, FiniteSets, TLC

VARIABLES os, srv, pool, ret, hist

vars == <<os, srv, pool, ret, hist>>

(***************************************************************************)
(* Bounds of the model.                                                    *)
(***************************************************************************)
MaxFd == 3
MaxLen == 2
MaxClients == 2

MaxSock == MaxFd          \* kernel sockets, as many as descriptors

FD == 1..MaxFd            \* descriptors; 0 is the process's stdin, never a socket
SockId == 1..MaxSock      \* kernel sockets
Ports == {1, 2}           \* unprivileged port numbers a caller names
Payloads == {[i \in 1..MaxLen |-> 1 + ((i - 1) % 2)]}
Lengths == 0..MaxLen
Notes == {<<1>>}           \* the messages of the clients on other hosts
Delays == {200}                         \* ms until bytes in flight arrive
Timeouts == {100, 300, 1000}   \* iTimeoutMsec (those that overflow are in Conversions)
\* iTimeoutMsec around the ends of the ranges of its conversion
Conversions == {-2147484, -1, 0, 1, 999, 1000, 1001, 2147483, 2147484,
                4294967, 4294968, 2147483647}
IpLiterals == {<<127, 0, 0, 1>>, <<127, 0, 1>>, <<256, 0, 0, 1>>, <<10, 0, 0, 1>>}

(***************************************************************************)
(* Constants of the system headers and of tcp-sock.h.                      *)
(***************************************************************************)
SOL_SOCKET == 1
IPPROTO_TCP == 6
SO_REUSEADDR == 2
SO_KEEPALIVE == 9
SO_REUSEPORT == 15
TCP_KEEPIDLE == 4
TCP_KEEPINTVL == 5
TCP_KEEPCNT == 6
MSG_PEEK == 2
MSG_DONTWAIT == 64
TCP_TIME_OUT == 0
TCP_DISCONNECTION == -2
UsecPerSec == 1000000
INT_MAX == 2147483647

Min(a, b) == IF a < b THEN a ELSE b
Max(a, b) == IF a > b THEN a ELSE b
Take(q, n) == SubSeq(q, 1, n)
Drop(q, n) == SubSeq(q, n + 1, Len(q))

\* A long (64 bits: tv_usec is one) can pass the 32 bits of an integer here, so it is
\* kept as ms * 1000 + us with 0 <= us < 1000.
Long(v) == [ms |-> v \div 1000, us |-> v % 1000]      \* the long an int converts to
Thousands(a) == [ms |-> a, us |-> 0]                  \* the long a * 1000
Less(x, y) == x.ms < y.ms \/ (x.ms = y.ms /\ x.us < y.us)    \* x < y
Negative(x) == Less(x, Long(0))

RECURSIVE BitOr(_, _)
BitOr(a, b) ==
    IF a = 0 THEN b
    ELSE IF b = 0 THEN a
    ELSE 2 * BitOr(a \div 2, b \div 2) + (IF a % 2 = 1 \/ b % 2 = 1 THEN 1 ELSE 0)

RECURSIVE BitAnd(_, _)
BitAnd(a, b) ==
    IF a = 0 \/ b = 0 THEN 0
    ELSE 2 * BitAnd(a \div 2, b \div 2) + (IF a % 2 = 1 /\ b % 2 = 1 THEN 1 ELSE 0)

\* htons: a port is the low 16 bits of the int handed over
Htons(p) == p % 65536

(***************************************************************************)
(* Kernel sockets.                                                         *)
(***************************************************************************)
OptNames == {"SO_REUSEADDR", "SO_REUSEPORT", "SO_KEEPALIVE",
             "TCP_KEEPIDLE", "TCP_KEEPINTVL", "TCP_KEEPCNT"}

\* option values of a new socket (the kernel's defaults)
DefaultOpt ==
    [o \in OptNames |->
        CASE o = "TCP_KEEPIDLE" -> 7200
          [] o = "TCP_KEEPINTVL" -> 75
          [] o = "TCP_KEEPCNT" -> 9
          [] OTHER -> 0]

\* the peer of a socket connected from another host
Remote == -1

\* st: free | fresh | bound | listen | pend (connected, waiting in an accept queue) | conn
\* peer: the socket at the other end, Remote, or 0 (none, or gone)
\* fin: 0 peer open, 1 the peer's FIN is in flight behind net, 2 FIN received
NoSock ==
    [st |-> "free", port |-> 0, opt |-> DefaultOpt, peer |-> 0, lst |-> 0,
     backlog |-> 0, rcvq |-> <<>>, net |-> <<>>, due |-> 0, fin |-> 0]

Res(k, r) == [k |-> k, r |-> r]

SockOf(K, fd) == IF fd \in FD THEN K.fdt[fd] ELSE 0

FreeFds(K) == {fd \in FD : K.fdt[fd] = 0}
FreeSocks(K) == {s \in SockId : K.sk[s].st = "free"}
Lowest(S) == CHOOSE x \in S : \A y \in S : x <= y

\* the option a (level, optname) pair names, "none" when it names none
OptOf(level, name) ==
    CASE level = SOL_SOCKET /\ name = SO_REUSEADDR -> "SO_REUSEADDR"
      [] level = SOL_SOCKET /\ name = SO_REUSEPORT -> "SO_REUSEPORT"
      [] level = SOL_SOCKET /\ name = SO_KEEPALIVE -> "SO_KEEPALIVE"
      [] level = IPPROTO_TCP /\ name = TCP_KEEPIDLE -> "TCP_KEEPIDLE"
      [] level = IPPROTO_TCP /\ name = TCP_KEEPINTVL -> "TCP_KEEPINTVL"
      [] level = IPPROTO_TCP /\ name = TCP_KEEPCNT -> "TCP_KEEPCNT"
      [] OTHER -> "none"

\* socket(AF_INET, SOCK_STREAM, 0): the lowest free descriptor, or -1
KSocket(K, fail) ==
    IF fail \/ FreeFds(K) = {} \/ FreeSocks(K) = {}
    THEN Res(K, -1)
    ELSE LET fd == Lowest(FreeFds(K))
             s == Lowest(FreeSocks(K))
         IN Res([fdt |-> [K.fdt EXCEPT ![fd] = s],
                 sk |-> [K.sk EXCEPT ![s] = [NoSock EXCEPT !.st = "fresh"]]], fd)

\* setsockopt(fd, level, name, &val, sizeof val)
KSetSockOpt(K, fd, level, name, val, fail) ==
    LET s == SockOf(K, fd) IN
    IF s = 0 \/ fail \/ OptOf(level, name) = "none"
    THEN Res(K, -1)
    ELSE Res([K EXCEPT !.sk[s].opt[OptOf(level, name)] = val], 0)

\* the sockets other than s whose local port is p
Holders(K, s, p) == {t \in SockId : t # s /\ K.sk[t].st # "free" /\ K.sk[t].port = p}

\* bind refuses a port another socket holds unless both sockets allow sharing
Shares(K, s, t) ==
    \/ K.sk[s].opt["SO_REUSEPORT"] # 0 /\ K.sk[t].opt["SO_REUSEPORT"] # 0
    \/ /\ K.sk[s].opt["SO_REUSEADDR"] # 0 /\ K.sk[t].opt["SO_REUSEADDR"] # 0
       /\ K.sk[t].st # "listen"

\* bind(fd, INADDR_ANY:port)
KBind(K, fd, port) ==
    LET s == SockOf(K, fd) IN
    IF s = 0 \/ K.sk[s].st # "fresh"
       \/ (port # 0 /\ \E t \in Holders(K, s, port) : ~Shares(K, s, t))
    THEN Res(K, -1)
    ELSE Res([K EXCEPT !.sk[s].st = "bound", !.sk[s].port = port], 0)

\* listen(fd, backlog)
KListen(K, fd, backlog, fail) ==
    LET s == SockOf(K, fd) IN
    IF s = 0 \/ fail \/ K.sk[s].st # "bound"
    THEN Res(K, -1)
    ELSE Res([K EXCEPT !.sk[s].st = "listen", !.sk[s].backlog = backlog], 0)

\* what the kernel does to the sockets when socket s goes away
Destroy(sk, s) ==
    LET p == sk[s].peer
        gone == {s} \cup {t \in SockId : sk[t].st = "pend" /\ sk[t].lst = s}
        orphaned == {sk[t].peer : t \in gone} \ {0, Remote}
    IN [t \in SockId |->
          IF t \in gone THEN NoSock
          ELSE IF t \in orphaned
               THEN [sk[t] EXCEPT !.peer = 0,
                                  !.fin = IF @ = 0 THEN 1 ELSE @,
                                  !.due = IF sk[t].net = <<>> /\ sk[t].fin = 0 THEN 0 ELSE @]
               ELSE sk[t]]

\* close(fd)
KClose(K, fd) ==
    LET s == SockOf(K, fd) IN
    IF s = 0 THEN Res(K, -1)
    ELSE Res([fdt |-> [K.fdt EXCEPT ![fd] = 0], sk |-> Destroy(K.sk, s)], 0)

\* the process ends: the kernel closes every descriptor
RECURSIVE KCloseAll(_, _)
KCloseAll(K, fd) ==
    IF fd > MaxFd THEN K ELSE KCloseAll(KClose(K, fd).k, fd + 1)

\* inet_pton(AF_INET, text): 1 and the address for four decimal fields of 0..255,
\* 0 for any other text (the text is given as its dot-separated fields)
InetPton(text) ==
    IF Len(text) = 4 /\ \A i \in 1..Len(text) : text[i] \in 0..255
    THEN [r |-> 1, addr |-> text]
    ELSE [r |-> 0, addr |-> <<>>]

Pending(K, l) == {t \in SockId : K.sk[t].st = "pend" /\ K.sk[t].lst = l}

\* connect(fd, addr:port), l the listening socket the SYN reaches (0: none answers)
KConnect(K, fd, addr, port, l) ==
    LET s == SockOf(K, fd) IN
    IF s = 0 \/ K.sk[s].st # "fresh" \/ l = 0 \/ addr[1] # 127
    THEN Res(K, -1)
    ELSE IF K.sk[l].st # "listen" \/ K.sk[l].port # port
            \/ Cardinality(Pending(K, l)) >= K.sk[l].backlog \/ FreeSocks(K) = {}
         THEN Res(K, -1)
         ELSE LET t == Lowest(FreeSocks(K)) IN
              Res([K EXCEPT !.sk[s].st = "conn", !.sk[s].peer = t,
                            !.sk[t] = [NoSock EXCEPT !.st = "pend", !.port = port,
                                                     !.opt = K.sk[l].opt, !.peer = s,
                                                     !.lst = l]], 0)

\* accept(fd, ...) taking the queued connection t
KAccept(K, fd, t) ==
    LET l == SockOf(K, fd) IN
    IF l = 0 \/ t \notin Pending(K, l) \/ FreeFds(K) = {}
    THEN Res(K, -1)
    ELSE LET nfd == Lowest(FreeFds(K)) IN
         Res([K EXCEPT !.fdt[nfd] = t, !.sk[t].st = "conn", !.sk[t].lst = 0], nfd)

\* room left in the buffers between a sender and the socket p it sends to
Room(K, p) == MaxLen - Len(K.sk[p].net) - Len(K.sk[p].rcvq)

\* send(fd, data, Len(data), 0) of which the kernel takes n bytes; they arrive after d ms
KSend(K, fd, data, n, d) ==
    LET s == SockOf(K, fd) IN
    IF s = 0 THEN Res(K, -1)
    ELSE IF K.sk[s].st # "conn" \/ K.sk[s].peer = 0 THEN Res(K, -1)
    ELSE IF K.sk[s].peer = Remote THEN Res(K, n)
    ELSE LET p == K.sk[s].peer IN
         Res([K EXCEPT !.sk[p].net = @ \o Take(data, n),
                       !.sk[p].due = IF K.sk[p].net = <<>> /\ n > 0 THEN d ELSE @], n)

InFlight(K, s) == K.sk[s].net # <<>> \/ K.sk[s].fin = 1

\* what may arrive next at s: the first k bytes in flight, and the FIN behind the last
Arrivals(K, s) ==
    {a \in (0..Len(K.sk[s].net)) \X BOOLEAN :
        /\ a[1] > 0 \/ a[2]
        /\ a[2] => (a[1] = Len(K.sk[s].net) /\ K.sk[s].fin = 1)}

NoArrival == <<0, FALSE>>

Arrive(K, s, a) ==
    IF a = NoArrival THEN K
    ELSE [K EXCEPT !.sk[s].rcvq = @ \o Take(K.sk[s].net, a[1]),
                   !.sk[s].net = Drop(@, a[1]),
                   !.sk[s].fin = IF a[2] THEN 2 ELSE @,
                   !.sk[s].due = IF a[1] = Len(K.sk[s].net) /\ (a[2] \/ K.sk[s].fin # 1)
                                 THEN 0 ELSE @]

\* recv(fd, buf, len, flags) that does not wait: r bytes in buf, 0, or -1
KRecv(K, fd, len, flags) ==
    LET s == SockOf(K, fd) IN
    IF s = 0 THEN [k |-> K, r |-> -1, buf |-> <<>>]
    ELSE IF K.sk[s].st # "conn" THEN [k |-> K, r |-> -1, buf |-> <<>>]
    ELSE IF K.sk[s].rcvq # <<>>
         THEN LET n == Min(len, Len(K.sk[s].rcvq)) IN
              [k |-> IF BitAnd(flags, MSG_PEEK) # 0 THEN K
                     ELSE [K EXCEPT !.sk[s].rcvq = Drop(@, n)],
               r |-> n, buf |-> Take(K.sk[s].rcvq, n)]
         ELSE IF K.sk[s].fin = 2 \/ len = 0
              THEN [k |-> K, r |-> 0, buf |-> <<>>]
              ELSE [k |-> K, r |-> -1, buf |-> <<>>]

\* a recv without MSG_DONTWAIT sleeps while nothing can be returned
Sleeps(K, fd, len) ==
    LET s == SockOf(K, fd) IN
    /\ s # 0
    /\ K.sk[s].st = "conn"
    /\ K.sk[s].rcvq = <<>>
    /\ K.sk[s].fin # 2
    /\ len > 0

\* select reports these sockets readable at once
Readable(K, s) ==
    \/ K.sk[s].st = "conn" /\ (K.sk[s].rcvq # <<>> \/ K.sk[s].fin = 2)
    \/ K.sk[s].st = "listen" /\ Pending(K, s) # {}
    \/ K.sk[s].st \in {"fresh", "bound"}

\* select(fd + 1, {fd}, NULL, NULL, {sec, usec}).  einval: the system refuses a
\* tv_usec above 999999; race: an arrival at the very end of the wait is seen;
\* a: what arrives first when something arrives within the wait
KSelect(K, fd, sec, usec, einval, race, a) ==
    LET s == SockOf(K, fd) IN
    IF s = 0 \/ sec < 0 \/ Negative(usec) \/ (~Less(usec, Long(UsecPerSec)) /\ einval)
    THEN Res(K, -1)
    ELSE IF Readable(K, s) THEN Res(K, 1)
    ELSE LET wait == [usec EXCEPT !.ms = @ + sec * 1000]
             due == Thousands(K.sk[s].due)
         IN IF InFlight(K, s) /\ a # NoArrival
               /\ (Less(due, wait) \/ (due = wait /\ race))
            THEN Res(Arrive(K, s, a), 1)
            ELSE Res([K EXCEPT !.sk[s].due = Max(0, @ - wait.ms)], 0)

(***************************************************************************)
(* State.                                                                  *)
(***************************************************************************)
NoTimeval == [tv_sec |-> 0, tv_usec |-> Long(0)]
NoRet == [op |-> "none", arg |-> <<>>, tv |-> NoTimeval, val |-> 0, buf |-> <<>>,
          sel |-> 0, nrecv |-> 0]
Ret(op, val) == [NoRet EXCEPT !.op = op, !.val = val]

SrvIdle == [pc |-> "idle", fd |-> 0, port |-> 0, maxc |-> 0, failed |-> "none", at |-> "none"]

Init ==
    /\ os = [fdt |-> [fd \in FD |-> 0], sk |-> [s \in SockId |-> NoSock]]
    /\ srv = SrvIdle
    /\ pool = [i \in 1..MaxClients |-> 0]
    /\ ret = NoRet
    /\ hist = [dblclose |-> FALSE]

(***************************************************************************)
(* isPortAvailable                                                         *)
(***************************************************************************)
\* (a faulty variant, against which the properties are tried: the probe leaves its socket open)
isPortAvailableOpen(iPort, fail) ==
    LET a == KSocket(os, fail) IN
    IF a.r < 0
    THEN /\ ret' = Ret("isPortAvailable", -1)
         /\ UNCHANGED <<os, srv, pool, hist>>
    ELSE LET b == KBind(a.k, a.r, Htons(iPort))
         IN /\ os' = b.k
            /\ ret' = Ret("isPortAvailable", IF b.r = 0 THEN 0 ELSE -1)
            /\ UNCHANGED <<srv, pool, hist>>

isPortAvailable(iPort, fail) ==
    LET a == KSocket(os, fail) IN
    IF a.r < 0
    THEN /\ ret' = Ret("isPortAvailable", -1)
         /\ UNCHANGED <<os, srv, pool, hist>>
    ELSE LET b == KBind(a.k, a.r, Htons(iPort))
             c == KClose(b.k, a.r)
         IN /\ os' = c.k
            /\ ret' = Ret("isPortAvailable", IF b.r = 0 THEN 0 ELSE -1)
            /\ UNCHANGED <<srv, pool, hist>>

(***************************************************************************)
(* createServerSocket, one action per system call and its check.           *)
(***************************************************************************)
\* exit(EXIT_FAILURE) called at `step': the process ends
Exit(step) ==
    /\ os' = KCloseAll(os, 1)
    /\ srv' = [srv EXCEPT !.pc = "exited", !.at = step]
    /\ pool' = [i \in 1..MaxClients |-> 0]
    /\ ret' = Ret("exit", 0)
    /\ UNCHANGED hist

\* the first system call of this activation that failed
Failed(step, r) == IF r < 0 /\ srv.failed = "none" THEN step ELSE srv.failed

CSS_Call(iPort, iMaxClients) ==
    /\ srv.pc = "idle"
    /\ srv' = [SrvIdle EXCEPT !.pc = "socket", !.port = iPort, !.maxc = iMaxClients]
    /\ UNCHANGED <<os, pool, ret, hist>>

CSS_Socket(fail) ==
    /\ srv.pc = "socket"
    /\ LET a == KSocket(os, fail) IN
       IF a.r = 0
       THEN Exit("socket")
       ELSE /\ os' = a.k
            /\ srv' = [srv EXCEPT !.pc = "reuse", !.fd = a.r, !.failed = Failed("socket", a.r)]
            /\ UNCHANGED <<pool, ret, hist>>

\* one setsockopt of createServerSocket and the check of its result
SetOptStep(step, next, level, name, val, fail) ==
    /\ srv.pc = step
    /\ LET a == KSetSockOpt(os, srv.fd, level, name, val, fail) IN
       IF a.r # 0
       THEN Exit(step)
       ELSE /\ os' = a.k
            /\ srv' = [srv EXCEPT !.pc = next]
            /\ UNCHANGED <<pool, ret, hist>>

CSS_Reuse(fail) ==
    SetOptStep("reuse", "keepalive", SOL_SOCKET, BitOr(SO_REUSEADDR, SO_REUSEPORT), 1, fail)

CSS_KeepAlive(fail) ==
    SetOptStep("keepalive", "keepidle", SOL_SOCKET, SO_KEEPALIVE, 1, fail)

\* (a faulty variant, against which the properties are tried: the idle time is set under the interval's name)
CSS_KeepIdleMisnamed(fail) ==
    SetOptStep("keepidle", "keepintvl", IPPROTO_TCP, TCP_KEEPINTVL, 10, fail)

CSS_KeepIdle(fail) ==
    SetOptStep("keepidle", "keepintvl", IPPROTO_TCP, TCP_KEEPIDLE, 10, fail)

CSS_KeepIntvl(fail) ==
    SetOptStep("keepintvl", "keepcnt", IPPROTO_TCP, TCP_KEEPINTVL, 5, fail)

CSS_KeepCnt(fail) ==
    SetOptStep("keepcnt", "bind", IPPROTO_TCP, TCP_KEEPCNT, 3, fail)

CSS_Bind ==
    /\ srv.pc = "bind"
    /\ LET a == KBind(os, srv.fd, Htons(srv.port)) IN
       IF a.r < 0
       THEN Exit("bind")
       ELSE /\ os' = a.k
            /\ srv' = [srv EXCEPT !.pc = "listen"]
            /\ UNCHANGED <<pool, ret, hist>>

CSS_Listen(fail) ==
    /\ srv.pc = "listen"
    /\ LET a == KListen(os, srv.fd, srv.maxc, fail) IN
       IF a.r < 0
       THEN Exit("listen")
       ELSE /\ os' = a.k
            /\ srv' = [srv EXCEPT !.pc = "return"]
            /\ UNCHANGED <<pool, ret, hist>>

CSS_Return ==
    /\ srv.pc = "return"
    /\ ret' = Ret("createServerSocket", srv.fd)
    /\ srv' = SrvIdle
    /\ UNCHANGED <<os, pool, hist>>

\* a new run of the program after the process ended
Restart ==
    /\ srv.pc = "exited"
    /\ srv' = SrvIdle
    /\ ret' = NoRet
    /\ UNCHANGED <<os, pool, hist>>

\* the steps of createServerSocket; P: the ports asked for, F: whether the system calls may fail for
\* reasons the model does not hold (no memory, no descriptor), M: the backlogs asked for
createServerSocket(P, F, M) ==
    \/ \E p \in P, m \in M : CSS_Call(p, m)
    \/ \E fail \in F : CSS_Socket(fail)
    \/ \E fail \in F : CSS_Reuse(fail)
    \/ \E fail \in F : CSS_KeepAlive(fail)
    \/ \E fail \in F : CSS_KeepIdle(fail)
    \/ \E fail \in F : CSS_KeepIntvl(fail)
    \/ \E fail \in F : CSS_KeepCnt(fail)
    \/ CSS_Bind
    \/ \E fail \in F : CSS_Listen(fail)
    \/ CSS_Return

(***************************************************************************)
(* createClientSocket                                                      *)
(***************************************************************************)
createClientSocket(kpchIp, iPort, fail, l) ==
    LET a == KSocket(os, fail) IN
    IF a.r < 0
    THEN /\ ret' = Ret("createClientSocket", -1)
         /\ UNCHANGED <<os, srv, pool, hist>>
    ELSE LET pt == InetPton(kpchIp) IN
         IF pt.r <= 0
         THEN /\ os' = a.k
              /\ ret' = Ret("createClientSocket", -1)
              /\ UNCHANGED <<srv, pool, hist>>
         ELSE LET c == KConnect(a.k, a.r, pt.addr, Htons(iPort), l) IN
              /\ os' = c.k
              /\ ret' = Ret("createClientSocket", IF c.r < 0 THEN -1 ELSE a.r)
              /\ UNCHANGED <<srv, pool, hist>>

(***************************************************************************)
(* The caller's accept (acceptClient of the tests): the new handle goes    *)
(* into the first empty slot of the client array.                          *)
(***************************************************************************)
FreeSlots == {i \in 1..MaxClients : pool[i] = 0}

acceptClient(fd, t) ==
    /\ SockOf(os, fd) # 0
    /\ t \in Pending(os, SockOf(os, fd))
    /\ FreeSlots # {}
    /\ LET a == KAccept(os, fd, t) IN
       /\ os' = a.k
       /\ pool' = IF a.r > 0 THEN [pool EXCEPT ![Lowest(FreeSlots)] = a.r] ELSE pool
       /\ ret' = Ret("accept", a.r)
    /\ UNCHANGED <<srv, hist>>

(***************************************************************************)
(* handleClientDisconnection and checkClientConnections                    *)
(***************************************************************************)
handleClientDisconnection(K, iClientSockfd) == KClose(K, iClientSockfd)

\* (a faulty variant, against which the properties are tried: the probing recv does not peek)
PeekFlagsTaking == MSG_DONTWAIT

\* the flags of the probing recv
PeekFlags == BitOr(MSG_PEEK, MSG_DONTWAIT)

\* (a faulty variant, against which the properties are tried: the turn peeks and closes nothing)
ScanSlotKeeping(c, i) ==
    IF c.pool[i] = 0 THEN c
    ELSE [c EXCEPT !.k = KRecv(c.k, c.pool[i], 1, BitOr(MSG_PEEK, MSG_DONTWAIT)).k]

\* one turn of the loop of checkClientConnections, on slot i; c carries the kernel
\* state, the array, the handles closed so far and whether a close hit a closed descriptor
ScanSlot(c, i) ==
    IF c.pool[i] = 0 THEN c
    ELSE LET result == KRecv(c.k, c.pool[i], 1, PeekFlags) IN
         IF result.r = 0
         THEN LET h == handleClientDisconnection(result.k, c.pool[i]) IN
              [k |-> h.k,
               pool |-> [c.pool EXCEPT ![i] = 0],
               closed |-> Append(c.closed, c.pool[i]),
               dbl |-> c.dbl \/ h.r < 0]
         ELSE [c EXCEPT !.k = result.k]

\* the loop from slot i on (d: what the turn on slot i leaves)
RECURSIVE ScanFrom(_, _, _)
ScanFrom(c, i, iMaxClients) ==
    IF i > iMaxClients THEN c
    ELSE CHOOSE r \in {ScanFrom(d, i + 1, iMaxClients) : d \in {ScanSlot(c, i)}} : TRUE

checkClientConnections(iMaxClients) ==
    \E c \in {ScanFrom([k |-> os, pool |-> pool, closed |-> <<>>, dbl |-> FALSE],
                       1, iMaxClients)} :
       /\ os' = c.k
       /\ pool' = c.pool
       /\ hist' = [hist EXCEPT !.dblclose = @ \/ c.dbl]
       /\ ret' = [Ret("checkClientConnections", Len(c.closed)) EXCEPT !.buf = c.closed]
       /\ UNCHANGED srv

(***************************************************************************)
(* sendMessage, recvMsgBlocking, recvMsgTimeout                            *)
(***************************************************************************)
\* the counts send may take of a buffer of len bytes: all that fits, or a part
Accepted(K, fd, len) ==
    LET s == SockOf(K, fd) IN
    IF s = 0 \/ len = 0 THEN {0}
    ELSE IF K.sk[s].st # "conn" \/ K.sk[s].peer = 0 THEN {0}
    ELSE IF K.sk[s].peer = Remote THEN 1..len
    ELSE 1..Min(len, Room(K, K.sk[s].peer))

sendMessage(iSock, cpvBuffer, iLength, n, d) ==
    /\ n \in Accepted(os, iSock, iLength)
    /\ LET sent == KSend(os, iSock, Take(cpvBuffer, iLength), n, d) IN
       /\ os' = sent.k
       /\ ret' = [Ret("sendMessage", IF sent.r < 0 THEN -1 ELSE sent.r)
                     EXCEPT !.arg = <<iSock, iLength>>, !.buf = Take(cpvBuffer, iLength)]
    /\ UNCHANGED <<srv, pool, hist>>

\* what may end the sleep of a blocking recv on fd
Wakeups(K, fd, len) ==
    IF Sleeps(K, fd, len) THEN Arrivals(K, SockOf(K, fd)) ELSE {NoArrival}

\* (a faulty variant, against which the properties are tried: the length asked for is returned as the count)
recvMsgBlockingAsked(iSock, iLength, a) ==
    /\ a \in Wakeups(os, iSock, iLength)
    /\ LET K1 == IF a = NoArrival THEN os ELSE Arrive(os, SockOf(os, iSock), a)
           received == KRecv(K1, iSock, iLength, 0)
       IN /\ os' = received.k
          /\ ret' = [Ret("recvMsgBlocking", IF received.r < 0 THEN -1 ELSE iLength)
                        EXCEPT !.arg = <<iSock, iLength>>,
                               !.buf = received.buf, !.nrecv = 1]
    /\ UNCHANGED <<srv, pool, hist>>

recvMsgBlocking(iSock, iLength, a) ==
    /\ a \in Wakeups(os, iSock, iLength)
    /\ LET K1 == IF a = NoArrival THEN os ELSE Arrive(os, SockOf(os, iSock), a)
           received == KRecv(K1, iSock, iLength, 0)
       IN /\ os' = received.k
          /\ ret' = [Ret("recvMsgBlocking", IF received.r < 0 THEN -1 ELSE received.r)
                        EXCEPT !.arg = <<iSock, iLength>>,
                               !.buf = received.buf, !.nrecv = 1]
    /\ UNCHANGED <<srv, pool, hist>>

\* a * b in 32-bit two's complement int arithmetic, 0 <= b < 65536
Mul32(a, b) ==
    LET al == a % 65536
        ah == (a \div 65536) % 65536
        lo == al * b
        hi == (ah * b + lo \div 65536) % 65536
    IN (IF hi >= 32768 THEN hi - 65536 ELSE hi) * 65536 + (lo % 65536)

\* iTimeoutMsec * 1000 stays within int
Fits(iTimeoutMsec) ==
    -(INT_MAX \div 1000) <= iTimeoutMsec /\ iTimeoutMsec <= INT_MAX \div 1000

\* the values iTimeoutMsec * 1000, an int product, can leave in the long tv_usec: the
\* product; when it passes int, which C leaves undefined, the product wrapped to 32
\* bits and sign-extended (a 32-bit multiply) or the product itself (a 64-bit multiply)
Products(iTimeoutMsec) ==
    IF Fits(iTimeoutMsec) THEN {Long(iTimeoutMsec * 1000)}
    ELSE {Long(Mul32(iTimeoutMsec, 1000)), Thousands(iTimeoutMsec)}

\* (a faulty variant, against which the properties are tried: the milliseconds are
\* split into seconds and microseconds)
TimevalsSplit(iTimeoutMsec) ==
    {[tv_sec |-> iTimeoutMsec \div 1000, tv_usec |-> Long((iTimeoutMsec % 1000) * 1000)]}

\* the timevals recvMsgTimeout can hand to select
Timevals(iTimeoutMsec) ==
    {[tv_sec |-> 0, tv_usec |-> usec] : usec \in Products(iTimeoutMsec)}

\* what may arrive during the wait of select on fd
SelArrivals(K, fd) ==
    LET s == SockOf(K, fd) IN
    IF s # 0 /\ ~Readable(K, s) /\ InFlight(K, s) THEN Arrivals(K, s) ELSE {NoArrival}

\* (a faulty variant, against which the properties are tried: what recv returned is returned as it is)
recvMsgTimeoutRaw(iSock, iLength, iTimeoutMsec, timeout, einval, race, a) ==
    /\ a \in SelArrivals(os, iSock)
    /\ timeout \in Timevals(iTimeoutMsec)
    /\ \E sel \in {KSelect(os, iSock, timeout.tv_sec, timeout.tv_usec, einval, race, a)} :
          IF sel.r < 0
          THEN /\ os' = sel.k
               /\ ret' = [Ret("recvMsgTimeout", -1)
                          EXCEPT !.arg = <<iSock, iLength, iTimeoutMsec>>,
                                 !.tv = timeout, !.sel = sel.r]
          ELSE IF sel.r = 0
          THEN /\ os' = sel.k
               /\ ret' = [Ret("recvMsgTimeout", TCP_TIME_OUT)
                          EXCEPT !.arg = <<iSock, iLength, iTimeoutMsec>>,
                                 !.tv = timeout, !.sel = sel.r]
          ELSE \E received \in {KRecv(sel.k, iSock, iLength, 0)} :
               /\ os' = received.k
               /\ ret' = [Ret("recvMsgTimeout", received.r)
                             EXCEPT !.arg = <<iSock, iLength, iTimeoutMsec>>,
                                    !.tv = timeout, !.buf = received.buf,
                                    !.sel = sel.r, !.nrecv = 1]
    /\ UNCHANGED <<srv, pool, hist>>

recvMsgTimeout(iSock, iLength, iTimeoutMsec, timeout, einval, race, a) ==
    /\ a \in SelArrivals(os, iSock)
    /\ timeout \in Timevals(iTimeoutMsec)
    /\ \E sel \in {KSelect(os, iSock, timeout.tv_sec, timeout.tv_usec, einval, race, a)} :
          IF sel.r < 0
          THEN /\ os' = sel.k
               /\ ret' = [Ret("recvMsgTimeout", -1)
                          EXCEPT !.arg = <<iSock, iLength, iTimeoutMsec>>,
                                 !.tv = timeout, !.sel = sel.r]
          ELSE IF sel.r = 0
          THEN /\ os' = sel.k
               /\ ret' = [Ret("recvMsgTimeout", TCP_TIME_OUT)
                          EXCEPT !.arg = <<iSock, iLength, iTimeoutMsec>>,
                                 !.tv = timeout, !.sel = sel.r]
          ELSE \E received \in {KRecv(sel.k, iSock, iLength, 0)} :
               /\ os' = received.k
               /\ ret' = [Ret("recvMsgTimeout",
                              IF received.r < 0 THEN -1
                              ELSE IF received.r = 0 THEN TCP_DISCONNECTION
                              ELSE received.r)
                             EXCEPT !.arg = <<iSock, iLength, iTimeoutMsec>>,
                                    !.tv = timeout, !.buf = received.buf,
                                    !.sel = sel.r, !.nrecv = 1]
    /\ UNCHANGED <<srv, pool, hist>>

(***************************************************************************)
(* The environment: the network, other programs, the application's closes. *)
(***************************************************************************)
\* bytes in flight (and the FIN behind them) arrive at socket s
Deliver(s, a) ==
    /\ os.sk[s].st \in {"conn", "pend"}
    /\ InFlight(os, s)
    /\ a \in Arrivals(os, s)
    /\ os' = Arrive(os, s, a)
    /\ ret' = NoRet
    /\ UNCHANGED <<srv, pool, hist>>

\* a socket of another program takes a port
OtherBind(p) ==
    /\ srv.pc # "exited"
    /\ LET a == KSocket(os, FALSE)
           b == KBind(a.k, a.r, p)
       IN /\ a.r >= 0
          /\ b.r = 0
          /\ os' = b.k
    /\ ret' = NoRet
    /\ UNCHANGED <<srv, pool, hist>>

\* a client on another host connects to the listening socket l
RemoteConnect(l) ==
    /\ os.sk[l].st = "listen"
    /\ Cardinality(Pending(os, l)) < os.sk[l].backlog
    /\ FreeSocks(os) # {}
    /\ os' = [os EXCEPT !.sk[Lowest(FreeSocks(os))] =
                 [NoSock EXCEPT !.st = "pend", !.port = os.sk[l].port,
                                !.opt = os.sk[l].opt, !.peer = Remote, !.lst = l]]
    /\ ret' = NoRet
    /\ UNCHANGED <<srv, pool, hist>>

\* that client sends a message once the one before has been read
RemoteSend(s, data) ==
    /\ os.sk[s].st = "conn" /\ os.sk[s].peer = Remote
    /\ os.sk[s].net = <<>> /\ os.sk[s].rcvq = <<>>
    /\ Len(data) <= Room(os, s)
    /\ os' = [os EXCEPT !.sk[s].net = data]
    /\ ret' = NoRet
    /\ UNCHANGED <<srv, pool, hist>>

\* that client closes its socket
RemoteClose(s) ==
    /\ os.sk[s].st = "conn" /\ os.sk[s].peer = Remote
    /\ os' = [os EXCEPT !.sk[s].peer = 0, !.sk[s].fin = 1]
    /\ ret' = NoRet
    /\ UNCHANGED <<srv, pool, hist>>

\* the descriptors the application holds and may close itself
Closable(fd) ==
    /\ SockOf(os, fd) # 0
    /\ \A i \in 1..MaxClients : pool[i] # fd
    /\ ~(srv.pc \notin {"idle", "exited"} /\ srv.fd = fd)

Close(fd) ==
    /\ Closable(fd)
    /\ os' = KClose(os, fd).k
    /\ ret' = NoRet
    /\ UNCHANGED <<srv, pool, hist>>

\* the process is alive; no call of createServerSocket is under way
Running == srv.pc # "exited"
Quiet == srv.pc = "idle"

\* the port of the server of the connection scenarios
ServerPort == Lowest(Ports)
\* the choices the environment has in one call, cut down to those that matter
Listeners(p) == {l \in SockId : os.sk[l].st = "listen" /\ os.sk[l].port = p}
Refusals(tv) == IF Less(tv.tv_usec, Long(UsecPerSec)) THEN {FALSE} ELSE BOOLEAN
Races(fd, tv) ==
    IF /\ SockOf(os, fd) # 0
       /\ tv.tv_sec = 0
       /\ Thousands(os.sk[SockOf(os, fd)].due) = tv.tv_usec
    THEN BOOLEAN ELSE {FALSE}
Loopback == <<127, 0, 0, 1>>
Open == {fd \in FD : SockOf(os, fd) # 0}
\* the descriptors of the connecting side: open and not in the client array
Outside == {fd \in FD : SockOf(os, fd) # 0 /\ \A i \in 1..MaxClients : pool[i] # fd}
Pooled == {pool[i] : i \in 1..MaxClients} \ {0}
\* the server socket is made when the process starts, or while it has none
Startup == srv.pc # "idle" \/ \A s \in SockId : os.sk[s].st = "free"
\* no connection stands
Unconnected == \A s \in SockId : os.sk[s].st \notin {"conn", "pend"}

(***************************************************************************)
(* SpecServer: createServerSocket with every outcome of every system call, *)
(* other threads and programs running between its steps.                   *)
(***************************************************************************)
Others ==
    \/ \E p \in Ports : OtherBind(p)
    \/ \E fd \in FD : Running /\ Close(fd)

NextServer ==
    \/ createServerSocket(Ports, BOOLEAN, 1..MaxClients)
    \/ Restart
    \/ Others

SpecServer == Init /\ [][NextServer]_vars

(***************************************************************************)
(* SpecProbe: the port probe among server sockets and the sockets of       *)
(* others, which come and go.                                              *)
(***************************************************************************)
NextProbe ==
    \/ \E p \in Ports, fail \in BOOLEAN : Running /\ isPortAvailable(p, fail)
    \/ createServerSocket(Ports, {FALSE}, {MaxClients})
    \/ Restart
    \/ Others

SpecProbe == Init /\ [][NextProbe]_vars

(***************************************************************************)
(* SpecClient: createClientSocket with every input against a server socket *)
(* made at startup.                                                        *)
(***************************************************************************)
NextClient ==
    \/ Startup /\ createServerSocket({ServerPort}, {FALSE}, 1..MaxClients)
    \/ \E ip \in IpLiterals, p \in Ports, fail \in BOOLEAN :
          \E l \in Listeners(p) \cup {0} : Quiet /\ createClientSocket(ip, p, fail, l)
    \/ \E fd \in FD, t \in SockId : Quiet /\ acceptClient(fd, t)
    \/ \E fd \in FD : Quiet /\ Close(fd)

SpecClient == Init /\ [][NextClient]_vars

(***************************************************************************)
(* SpecData: one connection at a time between two sockets of the process;  *)
(* the connecting side sends, any descriptor is received on with           *)
(* recvMsgBlocking.                                                        *)
(***************************************************************************)
Connecting ==
    \/ Startup /\ createServerSocket({ServerPort}, {FALSE}, {MaxClients})
    \/ \E p \in Ports : \E l \in Listeners(p) :
          Quiet /\ Unconnected /\ createClientSocket(Loopback, p, FALSE, l)
    \/ \E fd \in FD, t \in SockId : Quiet /\ acceptClient(fd, t)
    \/ \E fd \in FD : Quiet /\ Close(fd)

Sending ==
    \/ \E fd \in Outside, data \in Payloads, len \in 1..MaxLen, d \in Delays :
          \E n \in Accepted(os, fd, len) : Quiet /\ sendMessage(fd, data, len, n, d)
    \/ \E s \in SockId : \E a \in Arrivals(os, s) : Deliver(s, a)

NextData ==
    \/ Connecting
    \/ Sending
    \/ \E fd \in Open, len \in Lengths :
          \E a \in Wakeups(os, fd, len) : Quiet /\ recvMsgBlocking(fd, len, a)

SpecData == Init /\ [][NextData]_vars

(***************************************************************************)
(* SpecTimed: the same, any descriptor being received on with              *)
(* recvMsgTimeout.                                                         *)
(***************************************************************************)
NextTimed ==
    \/ Connecting
    \/ Sending
    \/ \E fd \in Open, len \in Lengths, T \in Timeouts : \E tv \in Timevals(T) :
          \E einval \in Refusals(tv), race \in Races(fd, tv), a \in SelArrivals(os, fd) :
             Quiet /\ recvMsgTimeout(fd, len, T, tv, einval, race, a)

SpecTimed == Init /\ [][NextTimed]_vars

(***************************************************************************)
(* SpecPool: clients on other hosts connect, send and close; the server    *)
(* accepts them into the client array, reads from them and scans the array.*)
(***************************************************************************)
NextPool ==
    \/ Startup /\ createServerSocket({ServerPort}, {FALSE}, {MaxClients})
    \/ \E l \in SockId : RemoteConnect(l)
    \/ \E s \in SockId, data \in Notes : RemoteSend(s, data)
    \/ \E s \in SockId : RemoteClose(s)
    \/ \E s \in SockId : \E a \in Arrivals(os, s) : Deliver(s, a)
    \/ \E fd \in FD, t \in SockId : Quiet /\ acceptClient(fd, t)
    \/ \E fd \in Pooled, len \in {MaxLen} :
          \E a \in Wakeups(os, fd, len) : Quiet /\ recvMsgBlocking(fd, len, a)
    \/ \E n \in 0..MaxClients : Quiet /\ checkClientConnections(n)

SpecPool == Init /\ [][NextPool]_vars

(***************************************************************************)
(* SpecConv: recvMsgTimeout on the descriptors of one connection with      *)
(* nothing sent, with the timeouts of Conversions.                         *)
(***************************************************************************)
NextConv ==
    \/ Connecting
    \/ \E fd \in Open, T \in Conversions : \E tv \in Timevals(T) :
          \E einval \in Refusals(tv), race \in Races(fd, tv), a \in SelArrivals(os, fd) :
             Quiet /\ recvMsgTimeout(fd, MaxLen, T, tv, einval, race, a)

SpecConv == Init /\ [][NextConv]_vars

(***************************************************************************)
(* The whole program.                                                      *)
(***************************************************************************)
Next ==
    NextServer \/ NextProbe \/ NextClient \/ NextData \/ NextTimed \/ NextPool \/ NextConv

Spec == Init /\ [][Next]_vars

(***************************************************************************)
(* Properties.  A property of one call is stated over the steps that are   *)
(* that call: the step's action, its inputs quantified, implies what the   *)
(* call returns (ret', with the call's arguments in ret'.arg) and leaves   *)
(* behind (os', pool').                                                    *)
(***************************************************************************)
\* the bytes sent to socket s that its owner has not received yet
Unread(K, s) == K.sk[s].rcvq \o K.sk[s].net

(***************************************************************************)
(* C1                                                                      *)
(***************************************************************************)
\* fd is connected, nothing is readable on it, and its peer's bytes are on their way
Waiting(fd) ==
    LET s == SockOf(os, fd) IN
    /\ s # 0
    /\ os.sk[s].st = "conn"
    /\ os.sk[s].rcvq = <<>> /\ os.sk[s].fin # 2
    /\ os.sk[s].net # <<>>

\* C1: on a connected socket with nothing readable, whose peer's bytes arrive (in one
\* piece) after D ms, recvMsgTimeout with a buffer that holds them and a timeout of T ms
\* returns TCP_TIME_OUT without reading anything when T < D, and when T > D returns the
\* number of bytes the peer sent, the buffer holding exactly those bytes.
C1_TimeoutAgainstDelay ==
    [][ret'.op = "recvMsgTimeout" =>
       \A fd \in {ret'.arg[1]}, T \in {ret'.arg[3]}, tv \in {ret'.tv} :
       \A einval \in Refusals(tv), race \in Races(fd, tv) :
          LET s == SockOf(os, fd)
              sent == os.sk[s].net
              D == os.sk[s].due
          IN (/\ Waiting(fd)
              /\ recvMsgTimeout(fd, MaxLen, T, tv, einval, race, <<Len(sent), FALSE>>))
             => /\ T < D => /\ ret'.val = TCP_TIME_OUT
                            /\ ret'.nrecv = 0
                            /\ Unread(os', s) = sent
                /\ T > D => /\ ret'.val = Len(sent)
                            /\ ret'.buf = sent]_vars

\* a call with a timeout longer than the delay came back with -1 from select, the
\* peer's bytes still on their way
C1_LongTimeoutRefused ==
    /\ ret.op = "recvMsgTimeout"
    /\ ret.val = -1
    /\ ret.sel = -1
    /\ \E fd \in FD : Waiting(fd) /\ os.sk[SockOf(os, fd)].due < 1000

(***************************************************************************)
(* C2                                                                      *)
(***************************************************************************)
\* fd is one end of a connection open at both ends on which nothing sent is unread
Idle(fd) ==
    LET s == SockOf(os, fd) IN
    /\ s # 0
    /\ os.sk[s].st = "conn"
    /\ os.sk[s].peer \in SockId
    /\ Unread(os, os.sk[s].peer) = <<>>

\* fd is an end of a connection that holds bytes sent to it and not yet received
Holds(fd) ==
    LET s == SockOf(os, fd) IN
    /\ s # 0
    /\ os.sk[s].st = "conn"
    /\ Unread(os, s) # <<>>

PeerClosed(K, s) == K.sk[s].st = "conn" /\ K.sk[s].fin # 0

\* the peer's close has arrived at s and every byte the peer sent has been read
ClosedAndRead(K, s) == K.sk[s].st = "conn" /\ K.sk[s].fin = 2 /\ K.sk[s].rcvq = <<>>

\* C4 as stated: for every buffer length, recvMsgTimeout returns TCP_TIME_OUT exactly
\* when select reported nothing readable (and then no recv is made), TCP_DISCONNECTION
\* exactly when the peer has closed the connection, -1 exactly when select or recv
\* failed, and otherwise the positive count of the bytes one recv obtained.
C4_Classification ==
    [][ret'.op = "recvMsgTimeout" =>
       \A fd \in {ret'.arg[1]}, len \in {ret'.arg[2]}, T \in {ret'.arg[3]},
          tv \in {ret'.tv} :
       \A einval \in Refusals(tv), race \in Races(fd, tv), a \in SelArrivals(os, fd) :
          LET s == SockOf(os, fd)
              sel == KSelect(os, fd, tv.tv_sec, tv.tv_usec, einval, race, a)
              received == KRecv(sel.k, fd, len, 0)
          IN recvMsgTimeout(fd, len, T, tv, einval, race, a)
             => /\ ret'.val = TCP_TIME_OUT <=> sel.r = 0
                /\ sel.r = 0 => ret'.nrecv = 0
                /\ ret'.val = TCP_DISCONNECTION <=> PeerClosed(os', s)
                /\ ret'.val = -1 <=> (sel.r < 0 \/ (sel.r > 0 /\ received.r < 0))
                /\ ret'.val \notin {TCP_TIME_OUT, TCP_DISCONNECTION, -1}
                      => /\ ret'.val > 0
                         /\ ret'.nrecv = 1
                         /\ ret'.val = received.r /\ ret'.buf = received.buf]_vars

\* C4 (amended): for every buffer length of at least 1, recvMsgTimeout returns
\* TCP_TIME_OUT exactly when select reported nothing readable (and then no recv is made),
\* TCP_DISCONNECTION exactly when its one recv returned 0, which is when the peer's close
\* has arrived and every byte the peer sent before it has been read, -1 exactly when
\* select or recv failed, and otherwise the positive count of the bytes its one recv
\* obtained; with a buffer length of 0 it returns TCP_DISCONNECTION on any readable
\* connection, closed by the peer or not.
C4_ClassificationByRecv ==
    [][ret'.op = "recvMsgTimeout" =>
       \A fd \in {ret'.arg[1]}, len \in {ret'.arg[2]}, T \in {ret'.arg[3]},
          tv \in {ret'.tv} :
       \A einval \in Refusals(tv), race \in Races(fd, tv), a \in SelArrivals(os, fd) :
          LET s == SockOf(os, fd)
              sel == KSelect(os, fd, tv.tv_sec, tv.tv_usec, einval, race, a)
              received == KRecv(sel.k, fd, len, 0)
          IN recvMsgTimeout(fd, len, T, tv, einval, race, a)
             => IF len = 0
                THEN (sel.r > 0 /\ os.sk[s].st = "conn") => ret'.val = TCP_DISCONNECTION
                ELSE /\ ret'.val = TCP_TIME_OUT <=> sel.r = 0
                     /\ sel.r = 0 => ret'.nrecv = 0
                     /\ ret'.val = TCP_DISCONNECTION
                           <=> (sel.r > 0 /\ received.r = 0 /\ ClosedAndRead(sel.k, s))
                     /\ ret'.val = TCP_DISCONNECTION => PeerClosed(os', s)
                     /\ ret'.val = -1 <=> (sel.r < 0 \/ (sel.r > 0 /\ received.r < 0))
                     /\ ret'.val \notin {TCP_TIME_OUT, TCP_DISCONNECTION, -1}
                           => /\ ret'.val > 0
                              /\ ret'.nrecv = 1
                              /\ ret'.val = received.r /\ ret'.buf = received.buf]_vars

\* a call reported the close of a peer that had closed
C4_CloseReported ==
    /\ ret.op = "recvMsgTimeout"
    /\ ret.val = TCP_DISCONNECTION
    /\ ret.nrecv = 1
    /\ \E fd \in FD : SockOf(os, fd) # 0 /\ ClosedAndRead(os, SockOf(os, fd))

(***************************************************************************)
(* C3: the scans against clients that close.  The network delivers what is *)
(* in flight to each socket, and the server keeps scanning its whole       *)
(* array; nothing obliges it to read from its clients.                     *)
(***************************************************************************)
LivePool ==
    /\ SpecPool
    /\ \A s \in SockId : WF_vars(\E a \in Arrivals(os, s) : Deliver(s, a))
    /\ WF_vars(Quiet /\ checkClientConnections(MaxClients))

\* the client whose handle is in slot i has closed its socket
Gone(i) ==
    /\ pool[i] # 0
    /\ SockOf(os, pool[i]) # 0
    /\ PeerClosed(os, SockOf(os, pool[i]))

\* ... and the server has read every byte that client sent
Drained(i) == Gone(i) /\ Unread(os, SockOf(os, pool[i])) = <<>>

Peek(K, fd) == KRecv(K, fd, 1, PeekFlags).r

\* how often fd occurs in q
Count(q, fd) == Cardinality({k \in 1..Len(q) : q[k] = fd})

\* C5: one scan of the first n slots closes, exactly once, the handles of those slots
\* that are not 0 and whose peek returns 0, and sets these slots to 0; every other slot
\* keeps its value and its handle stays open; no byte leaves a receive queue; and over
\* any sequence of scans no close hits a handle that is closed already.
C5_ScanFrame ==
    [][/\ ret'.op = "checkClientConnections" =>
          \A n \in 0..MaxClients :
             checkClientConnections(n)
             => /\ \A i \in 1..MaxClients :
                      IF i <= n /\ pool[i] # 0 /\ Peek(os, pool[i]) = 0
                      THEN /\ pool'[i] = 0
                           /\ SockOf(os', pool[i]) = 0
                           /\ Count(ret'.buf, pool[i]) = 1
                      ELSE /\ pool'[i] = pool[i]
                           /\ pool[i] # 0 =>
                                 /\ SockOf(os', pool[i]) = SockOf(os, pool[i])
                                 /\ Count(ret'.buf, pool[i]) = 0
                /\ \A s \in SockId :
                      os'.sk[s].st # "free" => os'.sk[s].rcvq = os.sk[s].rcvq
       /\ ~hist'.dblclose]_vars

\* a scan closed one handle and kept another on which bytes are pending
C5_ScanClosedAndKept ==
    /\ ret.op = "checkClientConnections"
    /\ ret.val >= 1
    /\ \E i \in 1..MaxClients :
          /\ pool[i] # 0
          /\ SockOf(os, pool[i]) # 0
          /\ os.sk[SockOf(os, pool[i])].rcvq # <<>>

(***************************************************************************)
(* C6                                                                      *)
(***************************************************************************)
\* C6: a probe of port p whose socket creation succeeds returns 0 exactly when no
\* socket holds p at that moment and -1 otherwise, and it leaves the descriptors and
\* the sockets as they were, so no later probe or bind fails because of it.
C6_ProbeTellsHeld ==
    [][ret'.op = "isPortAvailable" =>
       \A p \in Ports, fail \in BOOLEAN :
          (KSocket(os, fail).r >= 0 /\ isPortAvailable(p, fail))
          => /\ ret'.val = (IF Holders(os, 0, Htons(p)) = {} THEN 0 ELSE -1)
             /\ os' = os]_vars

\* a probe found the port held by a listening socket, descriptors being left
C6_ProbeFoundHeld ==
    /\ ret.op = "isPortAvailable"
    /\ ret.val = -1
    /\ FreeFds(os) # {} /\ FreeSocks(os) # {}
    /\ \E s \in SockId : os.sk[s].st = "listen"

(***************************************************************************)
(* C7                                                                      *)
(***************************************************************************)
\* C7: createServerSocket is fail-fast: the process ends at the step whose system call
\* failed, no later step being attempted, and a handle it returns is that of a socket
\* bound to the port and listening.
C7_FailFast ==
    /\ srv.failed # "none" => srv.pc = "exited"
    /\ srv.pc = "exited" => srv.at = srv.failed
    /\ ret.op = "createServerSocket" =>
          /\ SockOf(os, ret.val) # 0
          /\ os.sk[SockOf(os, ret.val)].st = "listen"
          /\ os.sk[SockOf(os, ret.val)].port \in Ports

\* socket() failed and the process went on to the first setsockopt
C7_WentOnAfterSocketFailed ==
    /\ srv.failed = "socket"
    /\ srv.pc = "reuse"
    /\ srv.fd = -1

(***************************************************************************)
(* C8                                                                      *)
(***************************************************************************)
KeepAliveSet(K, s) ==
    /\ K.sk[s].opt["SO_KEEPALIVE"] = 1
    /\ K.sk[s].opt["TCP_KEEPIDLE"] = 10
    /\ K.sk[s].opt["TCP_KEEPINTVL"] = 5
    /\ K.sk[s].opt["TCP_KEEPCNT"] = 3

\* C8: every socket createServerSocket returns has SO_KEEPALIVE = 1, TCP_KEEPIDLE = 10,
\* TCP_KEEPINTVL = 5 and TCP_KEEPCNT = 3, and has them from before its bind on.
C8_KeepAliveTuned ==
    /\ ret.op = "createServerSocket" =>
          SockOf(os, ret.val) # 0 /\ KeepAliveSet(os, SockOf(os, ret.val))
    /\ srv.pc \in {"bind", "listen", "return"} =>
          SockOf(os, srv.fd) # 0 /\ KeepAliveSet(os, SockOf(os, srv.fd))

\* createServerSocket has returned a listening socket
C8_ServerReturned ==
    /\ ret.op = "createServerSocket"
    /\ SockOf(os, ret.val) # 0
    /\ os.sk[SockOf(os, ret.val)].st = "listen"

(***************************************************************************)
(* C9                                                                      *)
(***************************************************************************)
\* C9: createClientSocket returns a non-negative connected handle exactly when socket
\* creation, the parsing of the IPv4 literal and connect all succeed, and -1 otherwise;
\* when it returns -1 the open descriptors are those open before the call.
C9_ClientSocket ==
    [][ret'.op = "createClientSocket" =>
       \A ip \in IpLiterals, p \in Ports, fail \in BOOLEAN, l \in SockId \cup {0} :
          createClientSocket(ip, p, fail, l)
          => LET a == KSocket(os, fail)
                 pt == InetPton(ip)
                 ok == /\ a.r >= 0
                       /\ pt.r > 0
                       /\ KConnect(a.k, a.r, pt.addr, Htons(p), l).r >= 0
             IN /\ ok => /\ ret'.val >= 0
                         /\ SockOf(os', ret'.val) # 0
                         /\ os'.sk[SockOf(os', ret'.val)].st = "conn"
                /\ ~ok => ret'.val = -1
                /\ ret'.val = -1 => Open' = Open]_vars

\* a call returned -1 and left the socket it had made open
C9_SocketLeftOpen ==
    /\ ret.op = "createClientSocket"
    /\ ret.val = -1
    /\ \E fd \in FD : SockOf(os, fd) # 0 /\ os.sk[SockOf(os, fd)].st = "fresh"

(***************************************************************************)
(* C10                                                                     *)
(***************************************************************************)
\* C10: every socket createServerSocket returns has SO_REUSEADDR and SO_REUSEPORT
\* both set to 1.
C10_ReuseBoth ==
    ret.op = "createServerSocket" =>
       /\ SockOf(os, ret.val) # 0
       /\ os.sk[SockOf(os, ret.val)].opt["SO_REUSEADDR"] = 1
       /\ os.sk[SockOf(os, ret.val)].opt["SO_REUSEPORT"] = 1

\* a returned server socket has SO_REUSEPORT set and SO_REUSEADDR not
C10_OnlyReusePort ==
    /\ ret.op = "createServerSocket"
    /\ SockOf(os, ret.val) # 0
    /\ os.sk[SockOf(os, ret.val)].opt["SO_REUSEADDR"] = 0
    /\ os.sk[SockOf(os, ret.val)].opt["SO_REUSEPORT"] = 1

(***************************************************************************)
(* C11                                                                     *)
(***************************************************************************)
\* tv is a timeval select takes as it is: tv_sec >= 0 and 0 <= tv_usec <= 999999
Normalized(tv) ==
    tv.tv_sec >= 0 /\ ~Negative(tv.tv_usec) /\ Less(tv.tv_usec, Long(UsecPerSec))

\* tv_sec seconds and tv_usec microseconds are T milliseconds
Represents(tv, T) ==
    /\ tv.tv_sec <= INT_MAX \div 1000 /\ tv.tv_sec >= -(INT_MAX \div 1000)
    /\ tv.tv_usec = Thousands(T - tv.tv_sec * 1000)

\* x - k * 2^32, for 2^32 = 4294967 * 1000 + 296
Minus2p32(x, k) ==
    LET us == x.us - k * 296 IN
    [ms |-> x.ms - k * 4294967 + us \div 1000, us |-> us % 1000]

\* x is T * 1000 taken modulo 2^32 into the range of int
WrapsTo(x, T) ==
    /\ ~Less(x, Long(-INT_MAX - 1)) /\ ~Less(Long(INT_MAX), x)
    /\ \E k \in (IF T >= 0 THEN 0..500 ELSE -500..0) : x = Minus2p32(Thousands(T), k)

\* C11 as stated: the timeval recvMsgTimeout hands to select has tv_sec = 0 and tv_usec
\* the int product of the timeout by 1000; it is a normalized representation of the
\* timeout exactly for timeouts of 0 to 999 ms, and for every timeout of 1000 ms or
\* more its tv_usec exceeds 999999.
C11_Conversion ==
    ret.op = "recvMsgTimeout" =>
       LET T == ret.arg[3]
           tv == ret.tv
       IN /\ tv.tv_sec = 0
          /\ WrapsTo(tv.tv_usec, T) \/ tv.tv_usec = Thousands(T)
          /\ (Normalized(tv) /\ Represents(tv, T)) <=> (0 <= T /\ T <= 999)
          /\ T >= 1000 => ~Less(tv.tv_usec, Long(UsecPerSec))

\* C11 (amended): the timeval recvMsgTimeout hands to select has tv_sec = 0; it is a
\* normalized representation of the timeout exactly for timeouts of 0 to 999 ms; for
\* timeouts of 1000 to 2147483 ms tv_usec is the timeout times 1000 and exceeds 999999;
\* for timeouts above 2147483 ms, whose product by 1000 passes int, tv_usec is that
\* product or the product taken modulo 2^32 into the range of int, which can be
\* negative or within 0..999999, and is then not the timeout.
C11_ConversionInRange ==
    ret.op = "recvMsgTimeout" =>
       LET T == ret.arg[3]
           tv == ret.tv
       IN /\ tv.tv_sec = 0
          /\ (Normalized(tv) /\ Represents(tv, T)) <=> (0 <= T /\ T <= 999)
          /\ Fits(T) => tv.tv_usec = Thousands(T)
          /\ (T >= 1000 /\ Fits(T)) => ~Less(tv.tv_usec, Long(UsecPerSec))
          /\ ~Fits(T) => /\ WrapsTo(tv.tv_usec, T) \/ tv.tv_usec = Thousands(T)
                         /\ WrapsTo(tv.tv_usec, T) => ~Represents(tv, T)

\* a timeout of 1000 ms or more was handed to select as a normalized timeval
C11_LongTimeoutNormalized ==
    /\ ret.op = "recvMsgTimeout"
    /\ ret.arg[3] >= 1000
    /\ Normalized(ret.tv)

====
